---- MODULE Spec2Model ----
(***************************************************************************)
(* A model of the three analysis scripts of ucblingmisc:                   *)
(*   ecog_ucsf.py          int2wavname, get_bad_channels, load_block       *)
(*   fricative_analysis.py the directory walk and the high/low ratio       *)
(*   VOT_290.py            burst detection and the voicing search          *)
(* Each script is a specification of its own (SpecEcog, SpecFric, Spec)    *)
(* over the variables of that script; the other scripts' variables stay    *)
(* at their initial values.                                                *)
(***************************************************************************)
EXTENDS Integers, Sequences, FiniteSets, TLC

VARIABLES
    e_pc,       \* ecog_ucsf.py: "start" | "named" | "loaded"
    e_n,        \* the argument of int2wavname
    e_name,     \* the result of int2wavname
    e_block,    \* the block directory handed to load_block
    e_ret       \* what load_block did: a return value or a raised exception

evars == <<e_pc, e_n, e_name, e_block, e_ret>>

VARIABLES
    f_pc,       \* fricative_analysis.py: "walk" | "fric" | "done" | "raised"
    f_tree,     \* the directory tree: the file lists os.walk yields, in order
    f_d,        \* index of the directory being walked
    f_i,        \* index of the file being checked in that directory
    f_left,     \* fricative labels of the open TextGrid still to analyse
    f_spec,     \* the mel spectrum read for the last fricative
    f_out,      \* the lines printed so far
    f_opened,   \* the <<directory, file>> places whose TextGrid was opened
    f_exc       \* the exception that ended the script, or None

fvars == <<f_pc, f_tree, f_d, f_i, f_left, f_spec, f_out, f_opened, f_exc>>

VARIABLES
    v_pc,        \* VOT_290.py: "loop" | "wave" | "spec" | "match" | "voicing" | "done" | "raised"
    nstops,      \* the labels of the phone tier that match the stop set
    k_stop,      \* how many of them the loop has taken
    phone,       \* the stop being measured: its label, times, samples, spectral change
    pol,         \* the polarity of the waveform
    f0,          \* the voicing decisions of the .f0 file, one per frame
    diff,        \* the spectral change of the stop, one sum per frame
    w_slots,     \* w_score and w_time
    s_slots,     \* s_score and s_time
    cand,        \* cand: waveform slot -> spectral slot
    maxb,        \* the best burst score (millionths)
    loc,         \* the burst location (ticks), Unbound before the first assignment
    best,        \* the waveform slot of the best pair
    burst_frame,
    start_frame,
    reads,       \* the indices the last voicing search read f0 at
    out,         \* the lines printed so far
    v_exc        \* the exception that ended the script, or None

vvars == <<v_pc, nstops, k_stop, phone, pol, f0, diff, w_slots, s_slots, cand, maxb, loc,
           best, burst_frame, start_frame, reads, out, v_exc>>

vars == <<evars, fvars, vvars>>

None == "none"

\* A name of the script that no statement has assigned yet.
Unbound == 0 - 1

\* Each script before it is run.
EcogIdle ==
    /\ e_pc = "start"
    /\ e_n = 0
    /\ e_name = None
    /\ e_block = None
    /\ e_ret = None

FricIdle ==
    /\ f_pc = "idle"
    /\ f_tree = <<>>
    /\ f_d = 0
    /\ f_i = 0
    /\ f_left = 0
    /\ f_spec = <<>>
    /\ f_out = <<>>
    /\ f_opened = {}
    /\ f_exc = None

\* The three-slot lists as wave_burst and spec_burst reset them.
EmptySlots == [score |-> <<0, 0, 0>>, time |-> <<0, 0, 0>>]

VotIdle ==
    /\ v_pc = "idle"
    /\ nstops = 0
    /\ k_stop = 0
    /\ phone = None
    /\ pol = 0
    /\ f0 = <<>>
    /\ diff = <<>>
    /\ w_slots = EmptySlots
    /\ s_slots = EmptySlots
    /\ cand = <<>>
    /\ maxb = 0
    /\ loc = Unbound
    /\ best = Unbound
    /\ burst_frame = 0
    /\ start_frame = 0
    /\ reads = {}
    /\ out = <<>>
    /\ v_exc = None

EcogInit == EcogIdle /\ FricIdle /\ VotIdle

(***************************************************************************)
(* ecog_ucsf.py                                                            *)
(***************************************************************************)

\* The number of channels of a block (range(2, 257), np.empty((256, ...))).
NChannels == 256
\* The number of channels per bank (n/64, np.mod(n-1, 64)).
BankSize == 64
\* The decimation factor of line 71.
DecimateQ == 10

\* Bounds of the block directories explored.
MaxBad == 2
\* Channels a bad-channel list is drawn from.
BadPool == {1, 2, 64, 256}
\* Decimated length of a channel file (the file holds DecimateQ times as many).
MaxFrames == 2

Digit == <<"0", "1", "2", "3", "4", "5", "6", "7", "8", "9">>

\* "{:d}".format(n) for n >= 0: the decimal digits, no padding.
RECURSIVE FormatD(_)
FormatD(n) ==
    IF n < 10 THEN Digit[n + 1] ELSE FormatD(n \div 10) \o Digit[(n % 10) + 1]

\* int(np.ceil(a/b)) under "from __future__ import division": true division.
CeilDiv(a, b) == -((-a) \div b)

\* The same expression with Python 2's integer "/": the floor.
FloorDiv(a, b) == a \div b

\* int(np.ceil(n/64))
BankOfFloor(n) == FloorDiv(n, BankSize)
BankOf(n) == CeilDiv(n, BankSize)

\* int(np.mod(n-1, 64) + 1)
PosOf(n) == ((n - 1) % BankSize) + 1

int2wavname(n) == "Wav" \o FormatD(BankOf(n)) \o FormatD(PosOf(n)) \o ".htk"

\* The names the module's global namespace binds (imports and defs).
ModuleNames ==
    {"division", "np", "scipy", "htkmfc", "os",
     "int2wavname", "get_bad_channels", "load_block"}

\* Whether an object of the namespace can be called: scipy.signal is a module.
Callable(name) == name \in {"int2wavname", "get_bad_channels", "load_block",
                            "scipy.signal.decimate", "htkmfc.open"}

\* The first line of Artifacts/badChannels.txt, split and converted.
get_bad_channels(block) == block.badline

\* Sample k of channel n's file: every file holds its own values.
ChanSamples(block, n) == [k \in 1..(block.frames * DecimateQ) |-> n * 1000 + k]

\* scipy.signal.decimate(x, q): one output sample for every q input samples
\* (the anti-aliasing filter is left out: the first sample of each group).
Decimate(x, q) == [j \in 1..(Len(x) \div q) |-> x[(j - 1) * q + 1]]

NaNRow(len) == [j \in 1..len |-> "nan"]

\* load_block, lines 60-72.  Line 64 evaluates the name decimate, which the
\* module never binds, and calls scipy.signal, a module.
load_block(block) ==
    LET badchan == get_bad_channels(block)
        c1 == ChanSamples(block, 1)
        InBad(n) == \E i \in 1..Len(badchan) : badchan[i] = n
    IN  IF "decimate" \notin ModuleNames
        THEN [kind |-> "raise", exc |-> "NameError"]
        ELSE IF ~Callable("scipy.signal")
        THEN [kind |-> "raise", exc |-> "TypeError"]
        ELSE LET dc1 == Decimate(c1, DecimateQ)
                 cdata == [n \in 1..NChannels |->
                             IF InBad(n) THEN NaNRow(Len(dc1))
                             ELSE IF n = 1 THEN dc1
                             ELSE Decimate(ChanSamples(block, n), DecimateQ)]
             IN  [kind |-> "return", data |-> cdata,
                  rate |-> block.sampPeriod, badchan |-> badchan]

RECURSIVE SeqsUpTo(_, _)
SeqsUpTo(S, n) ==
    IF n = 0 THEN {<<>>}
    ELSE LET shorter == SeqsUpTo(S, n - 1)
         IN  shorter \cup {Append(s, x) : s \in {q \in shorter : Len(q) = n - 1}, x \in S}

\* The block directories explored: all 256 channel files, a bad-channel list.
Blocks ==
    [badline : SeqsUpTo(BadPool, MaxBad), frames : 1..MaxFrames, sampPeriod : {2500}]


CallInt2WavName ==
    /\ e_pc = "start"
    /\ \E n \in 1..NChannels :
         /\ e_n' = n
         /\ e_name' = int2wavname(n)
    /\ e_pc' = "named"
    /\ UNCHANGED <<e_block, e_ret, fvars, vvars>>

CallLoadBlock ==
    /\ e_pc = "start"
    /\ \E b \in Blocks :
         /\ e_block' = b
         /\ e_ret' = load_block(b)
    /\ e_pc' = "loaded"
    /\ UNCHANGED <<e_n, e_name, fvars, vvars>>

EcogNext == CallInt2WavName \/ CallLoadBlock

SpecEcog == EcogInit /\ [][EcogNext]_vars

\* C2: for every n in 1..256, int2wavname(n) is "Wav" b p ".htk" with
\* b = ceil(n/64) in 1..4 and p = ((n-1) mod 64) + 1 in 1..64, both unpadded
\* decimals; channel 1 gives Wav11.htk and channel 256 gives Wav464.htk.
C2_WavName ==
    e_pc = "named" =>
        /\ \E b \in 1..4, p \in 1..64 :
             /\ e_n = 64 * (b - 1) + p
             /\ e_name = "Wav" \o FormatD(b) \o FormatD(p) \o ".htk"
             /\ Len(e_name) = 3 + 1 + (IF p < 10 THEN 1 ELSE 2) + 4
        /\ (e_n = 1 => e_name = "Wav11.htk")
        /\ (e_n = 64 => e_name = "Wav164.htk")
        /\ (e_n = 65 => e_name = "Wav21.htk")
        /\ (e_n = 256 => e_name = "Wav464.htk")

C2_Witness == e_pc = "named" /\ e_n = 256 /\ e_name = "Wav464.htk"

\* C3: load_block returns (data, rate, badchan): 256 rows, row n-1 the samples
\* of channel n decimated by 10 when n is not in the bad-channel list and all
\* NaN when it is, badchan the integers of the first line of badChannels.txt.
C3_LoadBlockReturns ==
    e_pc = "loaded" =>
        /\ e_ret.kind = "return"
        /\ DOMAIN e_ret.data = 1..NChannels
        /\ e_ret.badchan = e_block.badline
        /\ \A n \in 1..NChannels :
             IF \E i \in 1..Len(e_block.badline) : e_block.badline[i] = n
             THEN \A j \in DOMAIN e_ret.data[n] : e_ret.data[n][j] = "nan"
             ELSE e_ret.data[n] = Decimate(ChanSamples(e_block, n), DecimateQ)

(***************************************************************************)
(* fricative_analysis.py                                                   *)
(***************************************************************************)

\* The number of mel bands asked of melspec (-n60).
NBands == 60
\* The slice bounds of lines 127 and 128: spectrum[0:29], spectrum[30:59].
LowStop == 29
HighStart == 30
HighStop == 59

\* Bounds of the directory trees explored.
MaxDirs == 2
MaxFiles == 2
\* Fricative labels on the phone tier of one TextGrid.
MaxFric == 2

\* File names are sequences of characters.
WavExt == <<".", "w", "a", "v">>
TextGridExt == <<".", "T", "e", "x", "t", "G", "r", "i", "d">>
NameA == <<"a", "_", "b", "_", "1">>
NameC == <<"c", "_", "d", "_", "2">>
NameE == <<"e">>

\* The names a directory listing is drawn from: two recordings that follow
\* the talker_word_n convention, their TextGrids, a recording that does not,
\* and a file that is no recording.
NamePool ==
    {NameA \o WavExt, NameA \o TextGridExt,
     NameC \o WavExt, NameC \o TextGridExt,
     NameE \o WavExt, NameE \o <<".", "t", "x", "t">>}

EndsWith(name, suffix) ==
    /\ Len(name) >= Len(suffix)
    /\ SubSeq(name, Len(name) - Len(suffix) + 1, Len(name)) = suffix

\* fnmatch.fnmatch(soundfile, '*.wav')
IsWav(name) == EndsWith(name, WavExt)

\* Position of the last c in name, 0 when there is none.
RECURSIVE LastIndexOf(_, _, _)
LastIndexOf(name, c, k) ==
    IF k = 0 THEN 0
    ELSE IF name[k] = c THEN k
    ELSE LastIndexOf(name, c, k - 1)

\* os.path.splitext(name)[0]: the name up to its last dot (a leading dot is
\* no extension).
SplitExtRoot(name) ==
    LET k == LastIndexOf(name, ".", Len(name))
    IN  IF k <= 1 THEN name ELSE SubSeq(name, 1, k - 1)

\* len(name.split('_')): one more than the number of underscores.
SplitCount(name) == 1 + Cardinality({k \in 1..Len(name) : name[k] = "_"})

\* os.path.splitext(soundfile)[0] + '.TextGrid'
TextGridOf(name) == SplitExtRoot(name) \o TextGridExt

\* Whether the listing of a directory holds a name.
Listed(files, name) == \E k \in 1..Len(files) : files[k] = name

\* A Python slice s[a:b] of a list, 0-based, b exclusive, clamped to the list.
Slice(s, a, b) ==
    LET hi == IF b < Len(s) THEN b ELSE Len(s)
    IN  IF a >= hi THEN <<>> ELSE SubSeq(s, a + 1, hi)

RECURSIVE SumSeq(_)
SumSeq(s) == IF s = <<>> THEN 0 ELSE Head(s) + SumSeq(Tail(s))

\* low=sum(spectrum[0:29])
LowOf(spectrum) == SumSeq(Slice(spectrum, 0, LowStop))
\* high = sum(spectrum[30:59])
HighOf(spectrum) == SumSeq(Slice(spectrum, HighStart, HighStop))

\* The mel spectra explored: a floor of `base` in every band and one band,
\* `hot` (0-based), one unit above it.
MelSpectrum(base, hot) == [k \in 1..NBands |-> IF k = hot + 1 THEN base + 1 ELSE base]
HotBands == {0, 28, 29, 30, 58, 59}
Spectra == {MelSpectrum(base, hot) : base \in {0, 1}, hot \in HotBands}

\* Directory listings: distinct names, in the order os.listdir gives them.
Listings ==
    {s \in SeqsUpTo(NamePool, MaxFiles) :
        \A j, k \in 1..Len(s) : j /= k => s[j] /= s[k]}

\* The place after <<d, i>> in the walk, and whether the walk has ended there.
NextPlace(tree, d, i) ==
    IF i < Len(tree[d]) THEN <<d, i + 1>> ELSE <<d + 1, 1>>

\* Skip directories with no files: the inner loop does not run for them.
RECURSIVE Settle(_, _)
Settle(tree, place) ==
    IF place[1] > Len(tree) THEN place
    ELSE IF place[2] > Len(tree[place[1]]) THEN Settle(tree, <<place[1] + 1, 1>>)
    ELSE place

FricInit ==
    /\ f_pc = "walk"
    /\ f_tree \in {t \in SeqsUpTo(Listings, MaxDirs) : Len(t) >= 1}
    /\ f_d = Settle(f_tree, <<1, 1>>)[1]
    /\ f_i = Settle(f_tree, <<1, 1>>)[2]
    /\ f_left = 0
    /\ f_spec = <<>>
    /\ f_out = <<>>
    /\ f_opened = {}
    /\ f_exc = None
    /\ EcogIdle
    /\ VotIdle

\* Move to the next file, or end the walk.
Advance ==
    LET place == Settle(f_tree, NextPlace(f_tree, f_d, f_i))
    IN  /\ f_d' = place[1]
        /\ f_i' = place[2]
        /\ f_pc' = "walk"

FricRaise(exc) ==
    /\ f_pc' = "raised"
    /\ f_exc' = exc
    /\ UNCHANGED <<f_tree, f_d, f_i, f_left, f_spec, f_out, f_opened>>

\* Lines 92-93: the walk has run out of files.
WalkEnds ==
    /\ f_pc = "walk"
    /\ f_d > Len(f_tree)
    /\ f_pc' = "done"
    /\ UNCHANGED <<f_tree, f_d, f_i, f_left, f_spec, f_out, f_opened, f_exc, evars, vvars>>

\* Lines 94-96: a file that is not a .wav is passed over.
SkipFile ==
    /\ f_pc = "walk"
    /\ f_d <= Len(f_tree)
    /\ ~IsWav(f_tree[f_d][f_i])
    /\ Advance
    /\ UNCHANGED <<f_tree, f_left, f_spec, f_out, f_opened, f_exc, evars, vvars>>

\* Line 98: talker,word,junk = soundfile.split('_') needs exactly three parts.
SplitFails ==
    /\ f_pc = "walk"
    /\ f_d <= Len(f_tree)
    /\ IsWav(f_tree[f_d][f_i])
    /\ SplitCount(f_tree[f_d][f_i]) /= 3
    /\ FricRaise("ValueError")
    /\ UNCHANGED <<evars, vvars>>

\* Line 106: LabelManager reads the TextGrid; there is no test that it exists.
OpenFails ==
    /\ f_pc = "walk"
    /\ f_d <= Len(f_tree)
    /\ IsWav(f_tree[f_d][f_i])
    /\ SplitCount(f_tree[f_d][f_i]) = 3
    /\ ~Listed(f_tree[f_d], TextGridOf(f_tree[f_d][f_i]))
    /\ FricRaise("IOError")
    /\ UNCHANGED <<evars, vvars>>

\* Lines 98-109: the TextGrid is opened and its fricative labels are found.
OpenFile ==
    /\ f_pc = "walk"
    /\ f_d <= Len(f_tree)
    /\ IsWav(f_tree[f_d][f_i])
    /\ SplitCount(f_tree[f_d][f_i]) = 3
    /\ Listed(f_tree[f_d], TextGridOf(f_tree[f_d][f_i]))
    /\ f_opened' = f_opened \cup {<<f_d, f_i>>}
    /\ \E n \in 0..MaxFric :
         /\ f_left' = n
         /\ IF n = 0 THEN Advance
            ELSE f_pc' = "fric" /\ UNCHANGED <<f_d, f_i>>
    /\ UNCHANGED <<f_tree, f_spec, f_out, f_exc, evars, vvars>>

\* Lines 111-132 for one fricative: the spectrum, the two sums, the ratio, the
\* printed line.  high/low is a float division: low = 0 raises.
AnalyseFricative ==
    /\ f_pc = "fric"
    /\ \E sp \in Spectra :
         /\ f_spec' = sp
         /\ IF LowOf(sp) = 0
            THEN /\ f_pc' = "raised"
                 /\ f_exc' = "ZeroDivisionError"
                 /\ UNCHANGED <<f_d, f_i, f_left, f_out>>
            ELSE /\ f_out' = Append(f_out,
                        [file |-> <<f_d, f_i>>, high |-> HighOf(sp), low |-> LowOf(sp),
                         hl_ratio |-> [num |-> HighOf(sp), den |-> LowOf(sp)]])
                 /\ f_left' = f_left - 1
                 /\ IF f_left = 1 THEN Advance
                    ELSE f_pc' = "fric" /\ UNCHANGED <<f_d, f_i>>
                 /\ UNCHANGED f_exc
    /\ UNCHANGED <<f_tree, f_opened, evars, vvars>>

FricNext ==
    \/ WalkEnds
    \/ SkipFile
    \/ SplitFails
    \/ OpenFails
    \/ OpenFile
    \/ AnalyseFricative

SpecFric == FricInit /\ [][FricNext]_vars

\* Every place <<d, i>> of a file of the tree.
Places(tree) == {pl \in (1..Len(tree)) \X (1..MaxFiles + 1) : pl[2] <= Len(tree[pl[1]])}

\* Every recording of the tree is named talker_word_n.wav.
NamesFollowConvention(tree) ==
    \A pl \in Places(tree) :
        IsWav(tree[pl[1]][pl[2]]) => SplitCount(tree[pl[1]][pl[2]]) = 3

\* C4: a file is analysed if and only if its name matches *.wav and a
\* .TextGrid of the same base name is in the same directory; every other file
\* is skipped without ending the walk.  Stated for trees whose recordings
\* are all named talker_word_n.wav.
C4_WalkAnalysesExactlyLabelledWavs ==
    (f_pc \in {"done", "raised"} /\ NamesFollowConvention(f_tree)) =>
        /\ f_exc = None
        /\ \A pl \in Places(f_tree) :
             pl \in f_opened <=>
                /\ IsWav(f_tree[pl[1]][pl[2]])
                /\ Listed(f_tree[pl[1]], TextGridOf(f_tree[pl[1]][pl[2]]))

\* C5: low is the sum of bands 0..29, high the sum of bands 30..59, every band
\* in exactly one of the two sums, and the printed ratio is high/low.
C5_HalvesCoverAllBands ==
    (f_pc \in {"walk", "fric", "done"} /\ f_out /= <<>> /\ f_spec /= <<>>) =>
        LET line == f_out[Len(f_out)]
        IN  /\ line.low = SumSeq(SubSeq(f_spec, 1, NBands \div 2))
            /\ line.high = SumSeq(SubSeq(f_spec, NBands \div 2 + 1, NBands))
            /\ line.low + line.high = SumSeq(f_spec)
            /\ line.hl_ratio = [num |-> line.high, den |-> line.low]

(***************************************************************************)
(* VOT_290.py                                                              *)
(* Times are counted in ticks of 1/sf second (one sample at 16 kHz), so    *)
(* that w_time, s_time, the phone boundaries and the burst location are    *)
(* integers; frames are steps of `step`.  Waveform scores (a quotient of   *)
(* floats) are kept in thousandths, the burst score b in millionths.       *)
(***************************************************************************)

\* sf=16000
sf == 16000
\* step = 0.005, in milliseconds
step_ms == 5
\* math.fabs(w_time[w] - s_time[s]) < 0.004, in milliseconds
window_ms == 4
\* maxb = -2, in millionths
maxb0 == -2000000
\* b = -1.814 + 0.618*math.log(w_score[w]) + 0.003*s_score[s], in millionths
\* (the log in thousandths, the spectral score in units)
b_bias == -1814000
b_wcoef == 618
b_scoef == 3000

\* Ticks in a millisecond, in a frame, and in the matching window.
TicksPerMs == sf \div 1000
step == step_ms * TicksPerMs
window == window_ms * TicksPerMs

\* t=int(step*sf): the samples in one step.
t == step

\* w = sf*step (spec_burst): the fft window and shift, in samples.
w_len == step

Abs(x) == IF x < 0 THEN -x ELSE x

\* d[k] for a Python list d and index k: a negative index counts from the end.
At(d, k) == IF k >= 0 THEN d[k + 1] ELSE d[Len(d) + k + 1]

\* polarity(d): 1 unless the largest negative excursion exceeds the largest
\* positive one.
RECURSIVE PeakOf(_, _, _, _)
PeakOf(d, k, sign, peak) ==
    IF k > Len(d) THEN peak
    ELSE PeakOf(d, k + 1, sign,
                IF sign * d[k] > sign * peak THEN d[k] ELSE peak)

polarity(d) ==
    LET neg_peak == PeakOf(d, 1, -1, 0)
        pos_peak == PeakOf(d, 1, 1, 0)
    IN  IF -neg_peak > pos_peak THEN -1 ELSE 1

is_peak(i, j, k) == (i < j) /\ (j > k)

is_valley(i, j, k) == (i > j) /\ (j < k)

\* wave_burst lines 109-119: enter `change`, found at time tm, into the first
\* slot it exceeds (slots are 1..3 here, 0..2 in the code).
WaveInsert(sl, change, tm) ==
    LET i == IF change > sl.score[1] THEN 1
             ELSE IF change > sl.score[2] THEN 2
             ELSE IF change > sl.score[3] THEN 3
             ELSE 0
        s1 == IF i \in {1, 2}
              THEN [score |-> [sl.score EXCEPT ![3] = sl.score[2]],
                    time  |-> [sl.time  EXCEPT ![3] = sl.time[2]]]
              ELSE sl
        s2 == IF i = 1
              THEN [score |-> [s1.score EXCEPT ![2] = s1.score[1]],
                    time  |-> [s1.time  EXCEPT ![2] = s1.time[1]]]
              ELSE s1
    IN  IF i = 0 THEN sl
        ELSE [score |-> [s2.score EXCEPT ![i] = change],
              time  |-> [s2.time  EXCEPT ![i] = tm]]

\* spec_burst lines 142-152: the same, except that line 146 copies the score
\* of slot 1 into the time of slot 2: a score of x is then read as x seconds.
SpecInsert(sl, dv, tm) ==
    LET i == IF dv > sl.score[1] THEN 1
             ELSE IF dv > sl.score[2] THEN 2
             ELSE IF dv > sl.score[3] THEN 3
             ELSE 0
        s1 == IF i \in {1, 2}
              THEN [score |-> [sl.score EXCEPT ![3] = sl.score[2]],
                    time  |-> [sl.time  EXCEPT ![3] = sl.score[2] * sf]]
              ELSE sl
        s2 == IF i = 1
              THEN [score |-> [s1.score EXCEPT ![2] = s1.score[1]],
                    time  |-> [s1.time  EXCEPT ![2] = s1.time[1]]]
              ELSE s1
    IN  IF i = 0 THEN sl
        ELSE [score |-> [s2.score EXCEPT ![i] = dv],
              time  |-> [s2.time  EXCEPT ![i] = tm]]

\* wave_burst lines 104-106: the summed sample-to-sample change
\* |d[loc-i] - d[loc-(i+1)]| over i = hi, hi-1, ..., lo (the loop runs i from t
\* down to 2); the range is summed by halves.
RECURSIVE BaselineRange(_, _, _, _)
BaselineRange(d, lc, lo, hi) ==
    IF lo > hi THEN 0
    ELSE IF lo = hi THEN Abs(At(d, lc - lo) - At(d, lc - (lo + 1)))
    ELSE LET mid == (lo + hi) \div 2
         IN  BaselineRange(d, lc, mid + 1, hi) + BaselineRange(d, lc, lo, mid)

BaselineSum(d, lc, i) == BaselineRange(d, lc, 2, i)

\* The indices the baseline loop hands to d for a candidate at loc: d[loc-i]
\* and d[loc-(i+1)] for every i of range(t,1,-1), as written (before Python
\* resolves a negative one from the end of the list).
BaselineReads(lc) == UNION {{lc - i, lc - (i + 1)} : i \in 2..t}

\* Whether loc is a candidate: a peak for positive polarity, a valley for
\* negative (lines 102-103).
IsCandidate(pl, d, lc) ==
    \/ pl > 0 /\ is_peak(At(d, lc), At(d, lc + 1), At(d, lc + 2))
    \/ pl < 0 /\ is_valley(At(d, lc), At(d, lc + 1), At(d, lc + 2))

\* change = math.fabs(d[loc]-d[loc+1])/ave with ave = sum/t, in thousandths.
ChangeAt(d, lc) ==
    (Abs(At(d, lc) - At(d, lc + 1)) * t * 1000) \div BaselineSum(d, lc, t)

\* wave_burst lines 102-119 for one sample loc: the slots after it, and the
\* exception raised: ZeroDivisionError when a candidate follows a stretch
\* with no change (ave is 0.0).
WaveStep(pl, d, lc, r) ==
    IF ~IsCandidate(pl, d, lc) THEN r
    ELSE IF BaselineSum(d, lc, t) = 0 THEN [r EXCEPT !.exc = "ZeroDivisionError"]
    ELSE [r EXCEPT !.slots = WaveInsert(r.slots, ChangeAt(d, lc), lc)]

\* wave_burst line 101: the samples lo..hi in ascending order (the range is
\* walked by halves, first half first), up to the first exception.
RECURSIVE WaveScan(_, _, _, _, _)
WaveScan(pl, d, lo, hi, r) ==
    IF lo > hi THEN r
    ELSE IF lo = hi THEN WaveStep(pl, d, lo, r)
    ELSE LET mid == (lo + hi) \div 2
             first == WaveScan(pl, d, lo, mid, r)
         IN  IF first.exc /= None THEN first
             ELSE WaveScan(pl, d, mid + 1, hi, first)

\* wave_burst(t,sf,pol,d): for loc in range(t,len(d)-2).
wave_burst(pl, d) == WaveScan(pl, d, t, Len(d) - 3, [exc |-> None, slots |-> EmptySlots])

\* spec_burst lines 140-152 from frame loc on: s_time is loc*w/sf seconds.
RECURSIVE SpecScan(_, _, _)
SpecScan(df, lc, sl) ==
    IF lc > Len(df) - 1 THEN sl
    ELSE SpecScan(df, lc + 1, SpecInsert(sl, At(df, lc), lc * w_len))

spec_burst(df) == SpecScan(df, 0, EmptySlots)

\* math.log(x) for 1 <= x < 2, x and the result in thousandths: the series
\* 2(z + z^3/3 + z^5/5 + z^7/7), z = (x-1)/(x+1), in fixed point.
LnSeries(x) ==
    LET z  == ((x - 1000) * 10000) \div (x + 1000)
        z2 == (z * z) \div 10000
        z3 == (z * z2) \div 10000
        z5 == (z3 * z2) \div 10000
        z7 == (z5 * z2) \div 10000
    IN  (2 * (z + z3 \div 3 + z5 \div 5 + z7 \div 7)) \div 10

\* math.log(x) for x > 0, x and the result in thousandths (ln 2 = 0.693).
RECURSIVE LnMilli(_)
LnMilli(x) ==
    IF x >= 2000 THEN 693 + LnMilli(x \div 2)
    ELSE IF x < 1000 THEN LnMilli(2 * x) - 693
    ELSE LnSeries(x)

\* Line 219: the burst score of a pair of slots, in millionths.
BurstScore(wscore, sscore) == b_bias + b_wcoef * LnMilli(wscore) + b_scoef * sscore

\* Line 214: the two candidates lie within the window.
Near(wt, st) == Abs(wt - st) < window

\* Lines 210-215: cand[w] = s for every pair within the window; a later s
\* replaces an earlier one under the same key w.
LastNear(wt, stimes) ==
    IF Near(wt, stimes[3]) THEN 3
    ELSE IF Near(wt, stimes[2]) THEN 2
    ELSE IF Near(wt, stimes[1]) THEN 1
    ELSE 0

Candidates(wtimes, stimes) ==
    [w \in {x \in 1..3 : LastNear(wtimes[x], stimes) /= 0} |-> LastNear(wtimes[w], stimes)]

\* Lines 216-223 from key w on (keys in ascending order): the running
\* maxb, loc and best, and ValueError when math.log is handed a score of 0.
RECURSIVE PickBurst(_, _, _, _, _, _)
PickBurst(cd, w, wsl, ssl, start, acc) ==
    IF w > 3 THEN acc
    ELSE IF w \notin DOMAIN cd THEN PickBurst(cd, w + 1, wsl, ssl, start, acc)
    ELSE IF wsl.score[w] <= 0 THEN [acc EXCEPT !.exc = "ValueError"]
    ELSE LET b == BurstScore(wsl.score[w], ssl.score[cd[w]])
         IN  PickBurst(cd, w + 1, wsl, ssl, start,
                       IF b > acc.maxb
                       THEN [exc |-> None, maxb |-> b,
                             loc |-> wsl.time[w] + start, best |-> w]
                       ELSE acc)

\* int(round(x/step)) for x >= 0: halves round away from zero.
FrameOf(x) == (2 * x + step) \div (2 * step)

\* Whether a Python list of length len can be read at index k.
IndexOK(len, k) == (-len <= k) /\ (k < len)

\* Lines 236-238: the backward search from i on; the result is i.
RECURSIVE SearchBack(_, _, _, _)
SearchBack(trk, bf, sfr, i) ==
    IF (bf - i > sfr) /\ At(trk, bf - i) = 1 THEN SearchBack(trk, bf, sfr, i + 1) ELSE i

\* Lines 242-244: the forward search from i on; the result is i, or -1 when
\* the search runs off the end of the track (IndexError).
RECURSIVE SearchForward(_, _, _)
SearchForward(trk, bf, i) ==
    IF ~IndexOK(Len(trk), bf + i) THEN -1
    ELSE IF At(trk, bf + i) = 0 THEN SearchForward(trk, bf, i + 1)
    ELSE i

\* Lines 235-245: [exc, VOT (ms), reads (the indices f0 was read at)].
VoicingSearch(trk, bf, sfr) ==
    IF ~IndexOK(Len(trk), bf - 1)
    THEN [exc |-> "IndexError", VOT |-> 0, reads |-> {bf - 1}]
    ELSE IF At(trk, bf - 1) = 1
    THEN LET i == SearchBack(trk, bf, sfr, 1)
         IN  [exc |-> None, VOT |-> -i * step_ms,
              reads |-> {bf - 1} \cup {bf - j : j \in {x \in 1..i : bf - x > sfr}}]
    ELSE LET i == SearchForward(trk, bf, 0)
         IN  IF i < 0
             THEN [exc |-> "IndexError", VOT |-> 0,
                   reads |-> {bf - 1} \cup {k \in 0..Len(trk) : k >= bf}]
             ELSE [exc |-> None, VOT |-> i * step_ms,
                   reads |-> {bf - 1} \cup {bf + j : j \in 0..i}]

\* Bounds of the recordings explored.
MaxStops == 2
\* Length of a stop, in frames; its samples are s_samp..e_samp inclusive.
StopFrames == 3
\* Height of a spike added to a waveform.
SpikeHeight == 3

StopLen == StopFrames * step + 1
NFrames == MaxStops * StopFrames + 1

\* stops = re.compile("^(P|B|T|D|K|G)$"): the stops of the tier are labelled
\* T, D, T, ... in turn.
LabelOf(k) == IF k % 2 = 1 THEN "T" ELSE "D"

\* Period of the sawtooth background, in samples.
SawPeriod == 40

\* The waveforms of a stop: a background (flat silence, a sawtooth or a
\* steady ramp) with spikes at the given samples (0-based).
Background(bg, k) ==
    IF bg = "saw" THEN k % SawPeriod ELSE IF bg = "ramp" THEN k ELSE 0

WaveForm(wave) ==
    [j \in 1..StopLen |->
        Background(wave.bg, j - 1) + (IF (j - 1) \in wave.spikes THEN SpikeHeight ELSE 0)]

SpikeSets == {{}, {121}, {81, 121, 201}}

\* A stop's waveform is named by its background and its spikes; its samples
\* (data = map(int, ...), line 205) are WaveForm of that.
Waves == [bg : {"flat", "saw", "ramp"}, spikes : SpikeSets]

\* wave_burst on every waveform and polarity explored, evaluated once.
WaveBurstOf ==
    [pw \in {-1, 1} \X Waves |-> wave_burst(pw[1], WaveForm(pw[2]))] @@ <<>>

\* The spectral-change tracks of a stop: the summed change of each of its
\* frames.
DiffValues == {0, 50, 100}
DiffTracks == {s \in SeqsUpTo(DiffValues, StopFrames) : Len(s) = StopFrames}

\* The voicing tracks of a recording (get_f0's voicing decision per frame):
\* voiced or unvoiced throughout, or changing once.
F0Tracks ==
    {f \in [1..NFrames -> {0, 1}] :
        Cardinality({j \in 1..(NFrames - 1) : f[j] /= f[j + 1]}) <= 1}

\* The samples of the first vowel, which decide the polarity.
VowelData == {<<0, 3, -1>>, <<0, 1, -3>>}

\* phone.t1 of the k-th stop of the tier, in ticks: the stops follow one
\* another.
StartOf(k) == (k - 1) * StopFrames * step

\* Lines 66-69 and 160-192: the globals are zeroed, the TextGrid and the
\* voicing track are read, the polarity is measured on the first vowel.
Init ==
    /\ v_pc = "loop"
    /\ nstops \in 0..MaxStops
    /\ k_stop = 0
    /\ phone = None
    /\ pol \in {polarity(v) : v \in VowelData}
    /\ f0 = <<>>
    /\ diff = <<>>
    /\ w_slots = EmptySlots
    /\ s_slots = EmptySlots
    /\ cand = <<>>
    /\ maxb = 0
    /\ loc = Unbound
    /\ best = Unbound
    /\ burst_frame = 0
    /\ start_frame = 0
    /\ reads = {}
    /\ out = <<>>
    /\ v_exc = None
    /\ EcogIdle
    /\ FricIdle

VotRaise(exc) ==
    /\ v_pc' = "raised"
    /\ v_exc' = exc

\* Line 195: no stop is left on the phone tier.
LoopEnds ==
    /\ v_pc = "loop"
    /\ k_stop = nstops
    /\ v_pc' = "done"
    /\ UNCHANGED <<nstops, k_stop, phone, pol, f0, diff, w_slots, s_slots, cand, maxb,
                   loc, best, burst_frame, start_frame, reads, out, v_exc>>
    /\ UNCHANGED <<evars, fvars>>

\* Lines 195-205: the next stop, its word and its samples.
NextStop ==
    /\ v_pc = "loop"
    /\ k_stop < nstops
    /\ k_stop' = k_stop + 1
    /\ \E wave \in Waves :
         phone' = [t1 |-> StartOf(k_stop + 1),
                   t2 |-> StartOf(k_stop + 1) + StopLen - 1,
                   text |-> LabelOf(k_stop + 1), word |-> k_stop + 1, wave |-> wave]
    /\ v_pc' = "wave"
    /\ UNCHANGED <<nstops, pol, f0, diff, w_slots, s_slots, cand, maxb,
                   loc, best, burst_frame, start_frame, reads, out, v_exc>>
    /\ UNCHANGED <<evars, fvars>>

\* Line 207: wave_burst(t,sf,pol,data).
WaveBurst ==
    /\ v_pc = "wave"
    /\ LET r == WaveBurstOf[<<pol, phone.wave>>]
       IN  /\ w_slots' = r.slots
           /\ IF r.exc /= None
              THEN VotRaise(r.exc)
              ELSE v_pc' = "spec" /\ UNCHANGED v_exc
    /\ UNCHANGED <<nstops, k_stop, phone, pol, f0, diff, s_slots, cand, maxb,
                   loc, best, burst_frame, start_frame, reads, out>>
    /\ UNCHANGED <<evars, fvars>>

\* Line 208: spec_burst(s_samp,e_samp,sf,sd); the spectral change per frame
\* is what fft, melspec and nodiff print for the stop (lines 131-138).
SpecBurst ==
    /\ v_pc = "spec"
    /\ \E df \in DiffTracks :
         /\ diff' = df
         /\ s_slots' = spec_burst(df)
    /\ v_pc' = "match"
    /\ UNCHANGED <<nstops, k_stop, phone, pol, f0, w_slots, cand, maxb,
                   loc, best, burst_frame, start_frame, reads, out, v_exc>>
    /\ UNCHANGED <<evars, fvars>>

\* Lines 210-227: the candidate pairs, the best burst score, the burst
\* location and the two frames.  loc keeps its value from the stop before
\* when no pair scores above -2, and is unbound when there was none.
MatchBurst ==
    /\ v_pc = "match"
    /\ LET cd == Candidates(w_slots.time, s_slots.time)
           r == PickBurst(cd, 1, w_slots, s_slots, phone.t1,
                          [exc |-> None, maxb |-> maxb0, loc |-> loc, best |-> best])
       IN  /\ cand' = cd
           /\ maxb' = r.maxb
           /\ loc' = r.loc
           /\ best' = r.best
           /\ IF r.exc /= None
              THEN VotRaise(r.exc) /\ UNCHANGED <<burst_frame, start_frame>>
              ELSE IF r.loc = Unbound
              THEN VotRaise("NameError") /\ UNCHANGED <<burst_frame, start_frame>>
              ELSE /\ burst_frame' = FrameOf(r.loc)
                   /\ start_frame' = FrameOf(phone.t1)
                   /\ v_pc' = "voicing"
                   /\ UNCHANGED v_exc
    /\ UNCHANGED <<nstops, k_stop, phone, pol, f0, diff, w_slots, s_slots, reads, out>>
    /\ UNCHANGED <<evars, fvars>>

\* Lines 229-247: the voicing track is read from the .f0 file (the same file
\* for every stop), then the voicing search and the printed line.
Voicing ==
    /\ v_pc = "voicing"
    /\ \E trk \in (IF f0 = <<>> THEN F0Tracks ELSE {f0}) :
       LET r == VoicingSearch(trk, burst_frame, start_frame)
       IN  /\ f0' = trk
           /\ reads' = r.reads
           /\ IF r.exc /= None
              THEN VotRaise(r.exc) /\ UNCHANGED out
              ELSE /\ out' = Append(out, [word |-> phone.word, text |-> phone.text,
                                          VOT |-> r.VOT])
                   /\ v_pc' = "loop"
                   /\ UNCHANGED v_exc
    /\ UNCHANGED <<nstops, k_stop, phone, pol, diff, w_slots, s_slots, cand, maxb,
                   loc, best, burst_frame, start_frame>>
    /\ UNCHANGED <<evars, fvars>>

Next ==
    \/ LoopEnds
    \/ NextStop
    \/ WaveBurst
    \/ SpecBurst
    \/ MatchBurst
    \/ Voicing

Spec == Init /\ [][Next]_vars

\* The waveform candidates of a stop: every sample loc of range(t, len(d)-2)
\* that is a peak (a valley for negative polarity), with its score and time.
WaveCandidates(pl, d) ==
    {<<ChangeAt(d, lc), lc>> : lc \in {x \in t..(Len(d) - 3) : IsCandidate(pl, d, x)}}

\* The spectral candidates of a stop: every frame, with its score and time.
SpecCandidates(df) == {<<df[j], (j - 1) * w_len>> : j \in 1..Len(df)}

\* C1: the run completes and prints exactly one line per stop, in tier order,
\* each carrying that stop's word, phone label and VOT; no stop is skipped
\* and no stop aborts the run.
C1_RunPrintsEveryStop ==
    v_pc \in {"done", "raised"} =>
        /\ v_exc = None
        /\ Len(out) = nstops
        /\ \A i \in 1..Len(out) : out[i].word = i /\ out[i].text = LabelOf(i)

\* C6: after either detector has scanned a stop, its score list holds the
\* three largest candidate scores seen, in non-increasing order, and the time
\* in slot i is the time of the very candidate whose score is in slot i (0 for
\* a slot never filled).
C6_TopThreeScoresWithTheirTimes ==
    v_pc = "match" =>
        LET TopThree(slots, cands) ==
                /\ slots.score[1] >= slots.score[2]
                /\ slots.score[2] >= slots.score[3]
                /\ \A i \in 1..3 :
                     \/ slots.score[i] = 0 /\ slots.time[i] = 0
                     \/ <<slots.score[i], slots.time[i]>> \in cands
                /\ \A c \in cands :
                     \/ c[1] <= slots.score[3]
                     \/ \E i \in 1..3 : c = <<slots.score[i], slots.time[i]>>
        IN  /\ TopThree(w_slots, WaveCandidates(pol, WaveForm(phone.wave)))
            /\ TopThree(s_slots, SpecCandidates(diff))

\* C7: the burst location used for a stop is that stop's start time plus the
\* time of one of the waveform candidates found in that same stop's samples,
\* so it lies inside the stop's own interval [t1, t2].
C7_BurstInsideOwnStop ==
    v_pc = "voicing" =>
        /\ \E w \in 1..3 :
             /\ w_slots.score[w] > 0
             /\ loc = phone.t1 + w_slots.time[w]
        /\ phone.t1 <= loc
        /\ loc <= phone.t2

\* C8: among all pairs (w, s) of a waveform candidate and a spectral-change
\* candidate whose times differ by less than 0.004 s, no pair has a strictly
\* higher burst score than the pair chosen.
C8_ChosenPairHasHighestScore ==
    v_pc = "voicing" =>
        \A w \in 1..3, s \in 1..3 :
            (w_slots.score[w] > 0 /\ Near(w_slots.time[w], s_slots.time[s])) =>
                BurstScore(w_slots.score[w], s_slots.score[s]) <= maxb

\* C9: the printed VOT is step * (v - burst_frame): with the frame before the
\* burst unvoiced, v is the first voiced frame at or after the burst frame
\* and VOT >= 0; with it voiced, v is the earliest frame of the run of voiced
\* frames that ends just before the burst, no earlier than the stop's start
\* frame, and VOT < 0.
C9_VotIsTimeToVoicingOnset ==
    (v_pc = "loop" /\ k_stop > 0 /\ burst_frame >= 1) =>
        LET vot == out[Len(out)].VOT
            voiced(j) == At(f0, j) = 1
            forward == {j \in burst_frame..(Len(f0) - 1) : voiced(j)}
            run == {j \in 0..(burst_frame - 1) :
                       /\ j >= start_frame
                       /\ \A m \in j..(burst_frame - 1) : voiced(m)}
            first(S) == CHOOSE j \in S : \A x \in S : j <= x
        IN  IF ~voiced(burst_frame - 1)
            THEN /\ forward /= {}
                 /\ vot = step_ms * (first(forward) - burst_frame)
                 /\ vot >= 0
            ELSE /\ run /= {}
                 /\ vot = step_ms * (first(run) - burst_frame)
                 /\ vot < 0

\* C10: every index the backward and forward searches read lies in 0..L-1
\* for a voicing track of length L, and the forward search stops at a voiced
\* frame inside the track.
C10_VoicingSearchInsideTrack ==
    (v_pc \in {"loop", "raised"} /\ reads /= {}) =>
        /\ \A j \in reads : 0 <= j /\ j <= Len(f0) - 1
        /\ v_exc /= "IndexError"

\* C11: when wave_burst has scanned a stop, for every candidate peak or valley
\* at sample loc (t <= loc <= len(d)-3) every index read for its baseline lies
\* in 0..loc: only samples of the stop that precede the candidate are read,
\* none after it and none through a negative index.
C11_BaselineReadsPrecedeCandidate ==
    v_pc = "spec" =>
        LET d == WaveForm(phone.wave)
        IN  \A lc \in t..(Len(d) - 3) :
                IsCandidate(pol, d, lc) =>
                    \A k \in BaselineReads(lc) : 0 <= k /\ k <= lc

====
